---- MODULE Spec2Model ----
(***************************************************************************)
(* crossplane-gen: the xrd generator (pkg/xrd: Generator.Generate and the  *)
(* CRD -> XRD mapper CRDToXRDv2) and the CLI entry point (cmd/crossplane-  *)
(* gen/main.go).                                                           *)
(*                                                                         *)
(* Representation.  A Go pointer or an error is a sequence of length <= 1: *)
(* <<>> is nil, <<v>> is a non-nil value v.  A *bool that points into the  *)
(* loop variable of convertVersions is <<c>> with c the cell of `cells`    *)
(* that holds that instance of the loop variable.  Text (file contents)    *)
(* is a sequence of one-character strings; names are TLA+ strings.         *)
(***************************************************************************)
EXTENDS Integers, Sequences, FiniteSets, TLC

\* ------------------------------------------------------------------ bounds
\* Longest version list of a CRD.
MaxVersions == 2
\* Longest list of kinds the discovery step returns.
MaxKinds == 2

\* ------------------------------------------------------------- value sets
NilPtr == <<>>
NilErr == <<>>

SeqsUpTo(S, n) == UNION {[1..k -> S] : k \in 0..n}

\* apiextensionsv1.JSONSchemaProps, as far as encoding/json looks at it: a
\* type and an optional default whose raw bytes are returned unchecked by
\* JSON.MarshalJSON ("1" is valid JSON, "{" is not).
JSONSchemaProps ==
  { [Type |-> "object", Default |-> <<"1">>],
    [Type |-> "object", Default |-> <<"{">>] }

\* *apiextensionsv1.CustomResourceValidation: nil, or a struct whose
\* OpenAPIV3Schema pointer is nil or points to a JSONSchemaProps.
CustomResourceValidations ==
  {NilPtr} \cup {<<[OpenAPIV3Schema |-> NilPtr]>>}
           \cup {<<[OpenAPIV3Schema |-> <<p>>]>> : p \in JSONSchemaProps}

VersionNames == {"v1", "v2"}
DeprecationWarnings == {NilPtr, <<"use v2">>}

EncodableSchema == <<[OpenAPIV3Schema |-> <<[Type |-> "object", Default |-> <<"1">>]>>]>>

\* apiextensionsv1.CustomResourceDefinitionVersion.  The mapper reads the
\* schema and the deprecation fields independently of each other, so the
\* inputs vary every flag with the schema fixed, and every schema with the
\* deprecation fields fixed.
CRDVersions ==
  [ Name : VersionNames, Storage : BOOLEAN, Served : BOOLEAN,
    Schema : {EncodableSchema},
    Deprecated : BOOLEAN, DeprecationWarning : DeprecationWarnings ]
  \cup
  [ Name : VersionNames, Storage : BOOLEAN, Served : BOOLEAN,
    Schema : CustomResourceValidations,
    Deprecated : {FALSE}, DeprecationWarning : {NilPtr} ]

\* The versions the schema parser hands to Generate (the flags Generate
\* reads; one schema, no deprecation).
ParserVersions ==
  [ Name : {"v1"}, Storage : BOOLEAN, Served : {TRUE},
    Schema : {EncodableSchema},
    Deprecated : {FALSE}, DeprecationWarning : {NilPtr} ]

Groups == {"a.org", "b.io"}
Plurals == {"widgets", "gadgets"}

\* apiextensionsv1.CustomResourceDefinition
MkCRD(group, plural, versions) ==
  [ Name |-> IF plural = "" THEN "" ELSE plural \o "." \o group,
    Group |-> group, Plural |-> plural, Versions |-> versions ]

\* The zero value of the struct: what a map lookup of a missing key yields.
ZeroCRD == MkCRD("", "", <<>>)

\* Inputs of the mapper.
MapperCRDs ==
  { MkCRD("a.org", "widgets", vs) : vs \in SeqsUpTo(CRDVersions, MaxVersions) }

\* ------------------------------------------------------------ the mapper

\* encoding/json.Marshal of a JSONSchemaProps: the raw default is embedded
\* as is, and the encoder rejects the result when it is not valid JSON.
jsonMarshal(props) ==
  IF props.Default[1] = "{"
  THEN [raw |-> "", err |-> <<"json: error calling MarshalJSON for type JSON">>]
  ELSE [raw |-> "{\"default\":" \o props.Default[1] \o ",\"type\":\"" \o props.Type \o "\"}",
        err |-> NilErr]

convertSchemaNoEncode(crdSchema) ==
  IF crdSchema = NilPtr THEN NilPtr
  ELSE IF crdSchema[1].OpenAPIV3Schema = NilPtr THEN NilPtr
  ELSE <<[OpenAPIV3Schema |-> [Raw |-> ""]]>>

\* convertSchema: nil for an absent schema and for one that does not encode.
convertSchema(crdSchema) ==
  IF crdSchema = NilPtr THEN NilPtr
  ELSE IF crdSchema[1].OpenAPIV3Schema = NilPtr THEN NilPtr
  ELSE LET m == jsonMarshal(crdSchema[1].OpenAPIV3Schema[1])
       IN  IF m.err # NilErr THEN NilPtr
           ELSE <<[OpenAPIV3Schema |-> [Raw |-> m.raw]]>>

LoopVarCellShared(i) == 1

\* The instance of the loop variable crdVer that iteration i of
\* `for _, crdVer := range crdVersions` uses: one per iteration.
LoopVarCell(i) == i

\* The loop-variable instances after the loop: each holds the element of the
\* last iteration that used it.
crdVerCells(crdVersions) ==
  LET n == Len(crdVersions)
      used == {LoopVarCell(i) : i \in 1..n}
  IN  [ c \in used |->
          LET last == CHOOSE j \in 1..n :
                        /\ LoopVarCell(j) = c
                        /\ \A k \in 1..n : LoopVarCell(k) = c => k <= j
          IN  crdVersions[last] ]

xrdVersionSwapFlags(crdVer, i) ==
  [ Name |-> crdVer.Name, Referenceable |-> crdVer.Served,
    Served |-> crdVer.Storage, Schema |-> convertSchema(crdVer.Schema),
    Deprecated |-> IF crdVer.Deprecated THEN <<LoopVarCell(i)>> ELSE NilPtr,
    DeprecationWarning |->
      IF crdVer.Deprecated THEN crdVer.DeprecationWarning ELSE NilPtr ]

\* The body of the loop of convertVersions for iteration i.
xrdVersion(crdVer, i) ==
  [ Name |-> crdVer.Name, Referenceable |-> crdVer.Storage,
    Served |-> crdVer.Served, Schema |-> convertSchema(crdVer.Schema),
    Deprecated |-> IF crdVer.Deprecated THEN <<LoopVarCell(i)>> ELSE NilPtr,
    DeprecationWarning |->
      IF crdVer.Deprecated THEN crdVer.DeprecationWarning ELSE NilPtr ]

RECURSIVE appendVersions(_, _, _)
appendVersions(crdVersions, i, xrdVersions) ==
  IF i > Len(crdVersions) THEN xrdVersions
  ELSE appendVersions(crdVersions, i + 1,
                      Append(xrdVersions, xrdVersion(crdVersions[i], i)))

RECURSIVE appendVersionsDedup(_, _, _)
appendVersionsDedup(crdVersions, i, xrdVersions) ==
  IF i > Len(crdVersions) THEN xrdVersions
  ELSE IF \E k \in 1..Len(xrdVersions) : xrdVersions[k].Name = crdVersions[i].Name
  THEN appendVersionsDedup(crdVersions, i + 1, xrdVersions)
  ELSE appendVersionsDedup(crdVersions, i + 1,
                           Append(xrdVersions, xrdVersion(crdVersions[i], i)))

convertVersionsDedup(crdVersions) ==
  [ versions |-> appendVersionsDedup(crdVersions, 1, <<>>),
    cells |-> crdVerCells(crdVersions) ]

\* convertVersions: the output list, and the loop-variable instances its
\* Deprecated pointers point into.
convertVersions(crdVersions) ==
  [ versions |-> appendVersions(crdVersions, 1, <<>>),
    cells |-> crdVerCells(crdVersions) ]

\* CRDToXRDv2: the XRD, the cells its pointers refer to, and the error.
\* The annotations, the labels, the printer columns and the conversion
\* strategy are copied as they are and are left out of the records.
CRDToXRDv2(c) ==
  LET cv == convertVersions(c.Versions)
  IN  [ xrd |-> [ APIVersion |-> "apiextensions.crossplane.io/v2",
                  Kind |-> "CompositeResourceDefinition",
                  Name |-> c.Name, Group |-> c.Group, Plural |-> c.Plural,
                  Versions |-> cv.versions ],
        cells |-> cv.cells,
        err |-> NilErr ]

\* What a reader of output version v sees through its Deprecated pointer.
DeprecatedSet(v) == v.Deprecated # NilPtr
DeprecatedValue(v, cells) == cells[v.Deprecated[1]].Deprecated

\* ---------------------------------------------------------- the generator

\* schema.GroupKind
GroupKinds ==
  { [Group |-> "a.org", Kind |-> "Widget"],
    [Group |-> "a.org", Kind |-> "Gadget"],
    [Group |-> "b.io", Kind |-> "Widget"] }

\* What discovery can return: each kind once, in any order.
KindLists ==
  { ks \in SeqsUpTo(GroupKinds, MaxKinds) :
      \A a, b \in 1..Len(ks) : a # b => ks[a] # ks[b] }

\* The version lists the schema parser can build for a kind.
NotStorage == [ Name |-> "v1", Storage |-> FALSE, Served |-> TRUE,
                Schema |-> EncodableSchema,
                Deprecated |-> FALSE, DeprecationWarning |-> NilPtr ]
IsStorage == [NotStorage EXCEPT !.Name = "v2", !.Storage = TRUE]
ParserVersionLists ==
  { <<>>, <<NotStorage>>, <<IsStorage>>, <<NotStorage, IsStorage>>,
    <<IsStorage, IsStorage>> }

\* The CRDs the schema parser can leave in its map for groupKind.
ParserCRDs(groupKind) ==
  { MkCRD(groupKind.Group, plural, vs) :
      plural \in Plurals, vs \in ParserVersionLists }

\* Files of the source tree that ReadFile can be asked for: unreadable
\* (NilPtr) or holding a text.
HeaderFiles == {"LICENSE"}
HeaderTexts == { <<"Y", "E", "A", "R", " ", "Y", "E", "A", "R", ".">> }
Years == { <<>>, <<"2", "6">> }

\* strings.ReplaceAll on texts, for a non-empty old.
RECURSIVE ReplaceAll(_, _, _)
ReplaceAll(s, old, new) ==
  IF Len(s) < Len(old) THEN s
  ELSE IF SubSeq(s, 1, Len(old)) = old
       THEN new \o ReplaceAll(SubSeq(s, Len(old) + 1, Len(s)), old, new)
       ELSE <<Head(s)>> \o ReplaceAll(Tail(s), old, new)

\* headerText after the substitution of the year.
substituteYear(headerText, year) ==
  ReplaceAll(headerText, <<" ", "Y", "E", "A", "R">>, <<" ">> \o year)

earlyReturnMetav1Only(metav1Pkg, kinds) == metav1Pkg = NilPtr

\* The two early returns of Generate: no metav1 package, no kinds.
earlyReturn(metav1Pkg, kinds) == metav1Pkg = NilPtr \/ Len(kinds) = 0

hasStorageFirstOnly(versions) == Len(versions) > 0 /\ versions[1].Storage

\* The storage-version validation loop.
hasStorage(versions) == \E k \in 1..Len(versions) : versions[k].Storage

\* fmt.Errorf("XRD %s.%s must have at least one version with ...")
storageError(groupKind) ==
  << "XRD " \o groupKind.Kind \o "." \o groupKind.Group
     \o " must have at least one version with +kubebuilder:storageversion marker" >>

fileNameOfKind(c, groupKind) == groupKind.Group \o "_" \o groupKind.Kind \o ".yaml"

\* fmt.Sprintf("%s_%s.yaml", crdRaw.Spec.Group, crdRaw.Spec.Names.Plural)
fileName(c, groupKind) == c.Group \o "_" \o c.Plural \o ".yaml"

removeXRDStatusNoop(obj) == [obj |-> obj, err |-> NilErr]

\* removeXRDStatus: delete(obj, "status"); return nil
removeXRDStatus(obj) ==
  [ obj |-> [k \in DOMAIN obj \ {"status"} |-> obj[k]], err |-> NilErr ]

\* The version of an XRD as the serializer reads it, through its pointers.
versionDocument(v, cells) ==
  [ name |-> v.Name, referenceable |-> v.Referenceable, served |-> v.Served,
    schema |-> v.Schema,
    deprecated |-> IF DeprecatedSet(v) THEN <<DeprecatedValue(v, cells)>> ELSE NilPtr,
    deprecationWarning |-> v.DeprecationWarning ]

\* The map the writer decodes the serialized object into before it applies
\* the transforms.  The XRD type has a status struct, which serializes to a
\* top-level "status" key.
toDocument(r) ==
  [ apiVersion |-> r.xrd.APIVersion,
    kind |-> r.xrd.Kind,
    metadata |-> [name |-> r.xrd.Name],
    spec |-> [ group |-> r.xrd.Group, names |-> [plural |-> r.xrd.Plural],
               versions |-> [k \in 1..Len(r.xrd.Versions) |->
                               versionDocument(r.xrd.Versions[k], r.cells)] ],
    status |-> [controllers |-> "{}"] ]

\* A transform given to the writer with genall.WithTransform, by name.
applyTransform(t, obj) ==
  IF t = "removeXRDStatus" THEN removeXRDStatus(obj)
  ELSE [obj |-> obj, err |-> NilErr]

\* All the transforms of a call, in order, stopping at the first error.
RECURSIVE applyTransforms(_, _)
applyTransforms(ts, obj) ==
  IF ts = <<>> THEN [obj |-> obj, err |-> NilErr]
  ELSE LET r == applyTransform(Head(ts), obj)
       IN  IF r.err # NilErr THEN r ELSE applyTransforms(Tail(ts), r.obj)

\* ctx.WriteYAML(fileName, headerText, objs, genall.WithTransform(...)): the
\* file system after the call, and the error.  failed: the output rule could
\* not open or write the file.
WriteYAML(files, name, header, objs, transforms, failed) ==
  LET docs == [k \in 1..Len(objs) |-> applyTransforms(transforms, toDocument(objs[k]))]
  IN  IF failed \/ \E k \in 1..Len(objs) : docs[k].err # NilErr
      THEN [fs |-> files, err |-> <<"write failed">>]
      ELSE [ fs |-> (name :> [ header |-> header,
                               docs |-> [k \in 1..Len(objs) |-> docs[k].obj] ])
                    @@ files,
             err |-> NilErr ]

writeErrorDropped(err) == NilErr

\* fmt.Errorf("failed to write XRD: %w", err)
writeError(err) == <<"failed to write XRD: " \o err[1]>>

exitStatusZero(err) == 0

\* main: os.Exit(1) when cmd.Execute() returns an error, 0 otherwise.
exitStatus(err) == IF err # NilErr THEN 1 ELSE 0

VARIABLES
  \* the CLI
  pc,        \* the position of the process
  invoked,   \* what cmd.Execute did: "help", "flagError", "RunE" ("" before)
  optsErr,   \* the error of genall.FromOptions
  rt,        \* the runtime FromOptions built: <<>> or <<[Generators, g]>>
  runCalled, \* rt.Run was called
  hadErrs,   \* what rt.Run returned
  execErr,   \* what cmd.Execute returned
  exitCode,  \* <<>> while running, <<code>> after exit
  stderr,    \* the lines printed on stderr
  \* the generation context
  srcFiles,  \* the files ReadFile can be asked for
  fs,        \* the output files
  reads,     \* the ReadFile calls made
  calls,     \* the WriteYAML calls made
  events,    \* the NeedCRDFor and CRDToXRDv2 calls made
  schemaErrs,\* the kinds (by position) for which the parser recorded an error
  \* Generate
  metav1Pkg, \* crd.FindMetav1(ctx.Roots)
  kubeKinds, \* crd.FindKubeKinds(parser, metav1Pkg)
  headerText,
  idx,       \* the position of the range loop over kubeKinds
  CustomResourceDefinitions, \* parser.CustomResourceDefinitions
  crdRaw,
  xrd,       \* what CRDToXRDv2 returned
  genResult, \* what Generate returned
  \* the mapper called on its own
  mpc,       \* "call" before CRDToXRDv2, "returned" after it
  crdArg,    \* the CRD passed to CRDToXRDv2
  mres       \* what CRDToXRDv2 returned

cstate == <<invoked, optsErr, rt, runCalled, hadErrs, execErr, exitCode, stderr>>
cvars == <<pc, cstate>>
xvars == <<srcFiles, fs, reads, calls, events, schemaErrs>>
gvars == <<metav1Pkg, kubeKinds, headerText, idx, CustomResourceDefinitions,
           crdRaw, xrd, genResult>>
mvars == <<mpc, crdArg, mres>>
vars == <<cvars, xvars, gvars, mvars>>

NoResult == [xrd |-> [APIVersion |-> "", Kind |-> "", Name |-> "", Group |-> "",
                      Plural |-> "", Versions |-> <<>>],
             cells |-> <<>>, err |-> NilErr]

\* parser.CustomResourceDefinitions[groupKind]: the zero value when absent.
lookupCRD(m, groupKind) ==
  IF groupKind \in DOMAIN m THEN m[groupKind] ELSE ZeroCRD

CliStart ==
  /\ pc = "main" /\ invoked = "" /\ optsErr = NilErr /\ rt = <<>>
  /\ runCalled = FALSE /\ hadErrs = FALSE /\ execErr = NilErr
  /\ exitCode = <<>> /\ stderr = <<>>

GenStart ==
  /\ fs = <<>> /\ reads = <<>> /\ calls = <<>> /\ events = <<>>
  /\ schemaErrs = {}
  /\ metav1Pkg = NilPtr /\ kubeKinds = <<>> /\ headerText = <<>> /\ idx = 0
  /\ CustomResourceDefinitions = <<>> /\ crdRaw = ZeroCRD /\ xrd = NoResult
  /\ genResult = NilErr

Init ==
  /\ CliStart /\ GenStart
  /\ srcFiles \in [HeaderFiles -> {NilPtr} \cup {<<t>> : t \in HeaderTexts}]
  /\ mpc = "idle" /\ crdArg = ZeroCRD /\ mres = NoResult

\* cmd.Execute(): the help flag was given.  cobra prints the usage and
\* returns nil without calling RunE.
ExecuteHelp ==
  /\ pc = "main"
  /\ invoked' = "help" /\ execErr' = NilErr /\ pc' = "executed"
  /\ UNCHANGED <<optsErr, rt, runCalled, hadErrs, exitCode, stderr>>
  /\ UNCHANGED <<xvars, gvars, mvars>>

\* cmd.Execute(): the arguments hold a flag cobra does not know.  It returns
\* the error without calling RunE.
ExecuteFlagError ==
  /\ pc = "main"
  /\ invoked' = "flagError" /\ execErr' = <<"unknown flag">> /\ pc' = "executed"
  /\ UNCHANGED <<optsErr, rt, runCalled, hadErrs, exitCode, stderr>>
  /\ UNCHANGED <<xvars, gvars, mvars>>

\* cmd.Execute() calls RunE with the raw options.
ExecuteRunE ==
  /\ pc = "main"
  /\ invoked' = "RunE" /\ pc' = "RunE"
  /\ UNCHANGED <<optsErr, rt, runCalled, hadErrs, execErr, exitCode, stderr>>
  /\ UNCHANGED <<xvars, gvars, mvars>>

\* RunE: genall.FromOptions fails; RunE returns its error.
FromOptionsError ==
  /\ pc = "RunE"
  /\ optsErr' = <<"unknown argument">> /\ execErr' = optsErr' /\ pc' = "executed"
  /\ UNCHANGED <<invoked, rt, runCalled, hadErrs, exitCode, stderr>>
  /\ UNCHANGED <<xvars, gvars, mvars>>

\* RunE: the options parse, to a runtime with n generators; with none RunE
\* returns an error, otherwise it calls rt.Run, which calls Generate.
FromOptions ==
  /\ pc = "RunE"
  /\ \E n \in 0..1, hf \in {""} \cup HeaderFiles, y \in Years :
       /\ rt' = <<[Generators |-> n, g |-> [HeaderFile |-> hf, Year |-> y]]>>
       /\ IF n = 0
          THEN /\ execErr' = <<"no generators specified">>
               /\ pc' = "executed"
               /\ UNCHANGED runCalled
          ELSE /\ runCalled' = TRUE
               /\ pc' = "Generate"
               /\ UNCHANGED execErr
  /\ UNCHANGED <<invoked, optsErr, hadErrs, exitCode, stderr>>
  /\ UNCHANGED <<xvars, gvars, mvars>>

\* Generate up to the discovery of the kinds: the parser is set up, the
\* roots are loaded, metav1 and the kinds are looked for.
Discover ==
  /\ pc = "Generate"
  /\ \E m \in {NilPtr, <<"k8s.io/apimachinery/pkg/apis/meta/v1">>},
        ks \in KindLists :
       /\ metav1Pkg' = m
       /\ kubeKinds' = IF m = NilPtr THEN <<>> ELSE ks
       /\ IF earlyReturn(m, kubeKinds')
          THEN genResult' = NilErr /\ pc' = "ran"
          ELSE pc' = "header" /\ UNCHANGED genResult
  /\ UNCHANGED <<headerText, idx, CustomResourceDefinitions, crdRaw, xrd>>
  /\ UNCHANGED <<cstate, xvars, mvars>>

\* Generate: the header file is read when one is configured, and the year
\* is substituted.
ReadHeader ==
  /\ pc = "header"
  /\ LET g == rt[1].g
     IN  IF g.HeaderFile # ""
         THEN /\ reads' = Append(reads, g.HeaderFile)
              /\ IF srcFiles[g.HeaderFile] = NilPtr
                 THEN /\ genResult' = <<"open " \o g.HeaderFile \o ": no such file">>
                      /\ pc' = "ran"
                      /\ UNCHANGED <<headerText, idx>>
                 ELSE /\ headerText' = substituteYear(srcFiles[g.HeaderFile][1], g.Year)
                      /\ idx' = 1
                      /\ pc' = "loop"
                      /\ UNCHANGED genResult
         ELSE /\ headerText' = substituteYear(<<>>, g.Year)
              /\ idx' = 1
              /\ pc' = "loop"
              /\ UNCHANGED <<reads, genResult>>
  /\ UNCHANGED <<metav1Pkg, kubeKinds, CustomResourceDefinitions, crdRaw, xrd>>
  /\ UNCHANGED <<cstate, srcFiles, fs, calls, events, schemaErrs, mvars>>

\* The loop over the kinds: parser.NeedCRDFor(groupKind, g.MaxDescLen) and
\* the read of the parser's map.  NeedCRDFor returns nothing: it leaves a
\* CRD in the map or not, and records the errors of the schema construction
\* on the package.
NeedCRDFor ==
  /\ pc = "loop" /\ idx <= Len(kubeKinds)
  /\ LET groupKind == kubeKinds[idx]
     IN  \E stored \in BOOLEAN, c \in ParserCRDs(groupKind), failed \in BOOLEAN :
           /\ CustomResourceDefinitions' =
                IF stored THEN (groupKind :> c) @@ CustomResourceDefinitions
                ELSE CustomResourceDefinitions
           /\ schemaErrs' = IF failed THEN schemaErrs \cup {idx} ELSE schemaErrs
           /\ crdRaw' = lookupCRD(CustomResourceDefinitions', groupKind)
  /\ events' = Append(events, [op |-> "NeedCRDFor", idx |-> idx])
  /\ pc' = "validate"
  /\ UNCHANGED <<metav1Pkg, kubeKinds, headerText, idx, xrd, genResult>>
  /\ UNCHANGED <<cstate, srcFiles, fs, reads, calls, mvars>>

\* The loop is over: return nil.
ReturnNil ==
  /\ pc = "loop" /\ idx > Len(kubeKinds)
  /\ genResult' = NilErr
  /\ pc' = "ran"
  /\ UNCHANGED <<metav1Pkg, kubeKinds, headerText, idx, CustomResourceDefinitions,
                 crdRaw, xrd>>
  /\ UNCHANGED <<cstate, xvars, mvars>>

\* The storage-version validation.
Validate ==
  /\ pc = "validate"
  /\ IF ~hasStorage(crdRaw.Versions)
     THEN genResult' = storageError(kubeKinds[idx]) /\ pc' = "ran"
     ELSE pc' = "convert" /\ UNCHANGED genResult
  /\ UNCHANGED <<metav1Pkg, kubeKinds, headerText, idx, CustomResourceDefinitions,
                 crdRaw, xrd>>
  /\ UNCHANGED <<cstate, xvars, mvars>>

\* xrd, err := CRDToXRDv2(&crdRaw)
Convert ==
  /\ pc = "convert"
  /\ xrd' = CRDToXRDv2(crdRaw)
  /\ events' = Append(events, [op |-> "CRDToXRDv2", idx |-> idx])
  /\ IF xrd'.err # NilErr
     THEN /\ genResult' = <<"failed to convert CRD to XRD: " \o xrd'.err[1]>>
          /\ pc' = "ran"
     ELSE pc' = "write" /\ UNCHANGED genResult
  /\ UNCHANGED <<metav1Pkg, kubeKinds, headerText, idx, CustomResourceDefinitions,
                 crdRaw>>
  /\ UNCHANGED <<cstate, srcFiles, fs, reads, calls, schemaErrs, mvars>>

\* The file name and ctx.WriteYAML(fileName, headerText, []any{xrd},
\* genall.WithTransform(removeXRDStatus)).
Write ==
  /\ pc = "write"
  /\ \E failed \in BOOLEAN :
       LET name == fileName(crdRaw, kubeKinds[idx])
           transforms == <<"removeXRDStatus">>
           w == WriteYAML(fs, name, headerText, <<xrd>>, transforms, failed)
       IN  /\ calls' = Append(calls, [ idx |-> idx, fileName |-> name,
                                       headerText |-> headerText,
                                       objs |-> <<xrd>>,
                                       transforms |-> transforms,
                                       err |-> w.err ])
           /\ fs' = w.fs
           /\ IF w.err # NilErr
              THEN /\ genResult' = writeError(w.err)
                   /\ pc' = "ran"
                   /\ UNCHANGED idx
              ELSE /\ idx' = idx + 1
                   /\ pc' = "loop"
                   /\ UNCHANGED genResult
  /\ UNCHANGED <<metav1Pkg, kubeKinds, headerText, CustomResourceDefinitions,
                 crdRaw, xrd>>
  /\ UNCHANGED <<cstate, srcFiles, reads, events, schemaErrs, mvars>>

\* RunE after rt.Run(): hadErrs is set when Generate returned an error or a
\* package carries errors (those the parser recorded, or errors of loading).
RunReturns ==
  /\ pc = "ran"
  /\ \E loadErrs \in BOOLEAN :
       hadErrs' = (genResult # NilErr \/ schemaErrs # {} \/ loadErrs)
  /\ execErr' = IF hadErrs' THEN <<"not all generators ran successfully">> ELSE NilErr
  /\ pc' = "executed"
  /\ UNCHANGED <<invoked, optsErr, rt, runCalled, exitCode, stderr>>
  /\ UNCHANGED <<xvars, gvars, mvars>>

\* main after cmd.Execute(): print the error and exit 1, or fall off main.
Exit ==
  /\ pc = "executed"
  /\ stderr' = IF execErr # NilErr THEN Append(stderr, execErr[1]) ELSE stderr
  /\ exitCode' = <<exitStatus(execErr)>>
  /\ pc' = "exit"
  /\ UNCHANGED <<invoked, optsErr, rt, runCalled, hadErrs, execErr>>
  /\ UNCHANGED <<xvars, gvars, mvars>>

Next ==
  \/ ExecuteHelp \/ ExecuteFlagError \/ ExecuteRunE
  \/ FromOptionsError \/ FromOptions
  \/ Discover \/ ReadHeader \/ NeedCRDFor \/ ReturnNil
  \/ Validate \/ Convert \/ Write
  \/ RunReturns \/ Exit

Spec == Init /\ [][Next]_vars

\* ------------------------------------------------- the mapper on its own

MapperInit ==
  /\ CliStart /\ GenStart
  /\ srcFiles = [f \in HeaderFiles |-> NilPtr]
  /\ mpc = "call"
  /\ crdArg \in MapperCRDs
  /\ mres = NoResult

MapperCall ==
  /\ mpc = "call"
  /\ mres' = CRDToXRDv2(crdArg)
  /\ mpc' = "returned"
  /\ UNCHANGED <<crdArg, cvars, xvars, gvars>>

MapperNext == MapperCall

MapperSpec == MapperInit /\ [][MapperNext]_vars

\* ------------------------------------------------------------ properties

\* Generate has returned.
Returned == runCalled /\ pc \in {"ran", "executed", "exit"}

\* The CRD Generate read from the parser for the kind at position j.
CRDOf(j) == lookupCRD(CustomResourceDefinitions, kubeKinds[j])

\* The storage-version validation of the kind at position j has been done.
Validated(j) ==
  j < idx \/ (j = idx /\ pc \in {"convert", "write", "ran", "executed", "exit"})

NoStorageVersion(c) == \A k \in 1..Len(c.Versions) : ~c.Versions[k].Storage

Called(op, j) == \E e \in 1..Len(events) : events[e].op = op /\ events[e].idx = j
Written(j) == \E c \in 1..Len(calls) : calls[c].idx = j

\* Generate returned the storage-version error for the kind at position j.
Rejected(j) ==
  /\ Returned /\ idx = j
  /\ genResult = << "XRD " \o kubeKinds[j].Kind \o "." \o kubeKinds[j].Group
                    \o " must have at least one version with +kubebuilder:storageversion marker" >>

\* C1: a kind is rejected if and only if its CRD has no version with
\* storage = true (none at all included, two storage versions accepted); the
\* error names the kind and the group, and neither CRDToXRDv2 nor WriteYAML
\* is called for a rejected kind.
C1_RejectedIffNoStorage ==
  \A j \in 1..Len(kubeKinds) :
    Validated(j) =>
      /\ Rejected(j) <=> NoStorageVersion(CRDOf(j))
      /\ Rejected(j) => ~Called("CRDToXRDv2", j) /\ ~Written(j)

C1_Witness ==
  /\ Len(kubeKinds) = 2 /\ Rejected(2)
  /\ CRDOf(2).Versions = <<>>
  /\ Len(CRDOf(1).Versions) = 2
  /\ CRDOf(1).Versions[1].Storage /\ CRDOf(1).Versions[2].Storage
  /\ Written(1) /\ ~Written(2)

HasStorageVersion(c) == \E k \in 1..Len(c.Versions) : c.Versions[k].Storage

\* C2: for a CRD with a storage version CRDToXRDv2 returns a nil error and
\* as many versions as it was given, version i named as input version i.
C2_VersionsInOrder ==
  (mpc = "returned" /\ HasStorageVersion(crdArg)) =>
    /\ mres.err = NilErr
    /\ Len(mres.xrd.Versions) = Len(crdArg.Versions)
    /\ \A k \in 1..Len(crdArg.Versions) :
         mres.xrd.Versions[k].Name = crdArg.Versions[k].Name

C2_Witness ==
  /\ mpc = "returned" /\ HasStorageVersion(crdArg)
  /\ Len(crdArg.Versions) = 2
  /\ crdArg.Versions[1].Name = crdArg.Versions[2].Name
  /\ Len(mres.xrd.Versions) = 2

\* C3: output version i is referenceable exactly when input version i is the
\* storage version, and served exactly when input version i is served.
C3_ReferenceableIsStorage ==
  mpc = "returned" =>
    \A k \in 1..Len(crdArg.Versions) :
      /\ k \in DOMAIN mres.xrd.Versions
      /\ mres.xrd.Versions[k].Referenceable = crdArg.Versions[k].Storage
      /\ mres.xrd.Versions[k].Served = crdArg.Versions[k].Served

C3_Witness ==
  /\ mpc = "returned" /\ Len(crdArg.Versions) = 2
  /\ ~crdArg.Versions[1].Storage /\ crdArg.Versions[2].Storage
  /\ crdArg.Versions[1].Served /\ ~crdArg.Versions[2].Served
  /\ ~mres.xrd.Versions[1].Referenceable /\ mres.xrd.Versions[2].Referenceable

\* C4: output version i carries a deprecated flag, read as true, and the
\* deprecation message of input version i exactly when input version i is
\* deprecated; otherwise it carries neither, whatever the other versions are.
C4_DeprecationPerVersion ==
  mpc = "returned" =>
    \A k \in 1..Len(crdArg.Versions) :
      /\ k \in DOMAIN mres.xrd.Versions
      /\ IF crdArg.Versions[k].Deprecated
         THEN /\ mres.xrd.Versions[k].Deprecated # NilPtr
              /\ mres.cells[mres.xrd.Versions[k].Deprecated[1]].Deprecated = TRUE
              /\ mres.xrd.Versions[k].DeprecationWarning
                   = crdArg.Versions[k].DeprecationWarning
         ELSE /\ mres.xrd.Versions[k].Deprecated = NilPtr
              /\ mres.xrd.Versions[k].DeprecationWarning = NilPtr

C4_Witness ==
  /\ mpc = "returned" /\ Len(crdArg.Versions) = 2
  /\ crdArg.Versions[1].Deprecated /\ crdArg.Versions[1].DeprecationWarning # NilPtr
  /\ ~crdArg.Versions[2].Deprecated /\ crdArg.Versions[2].DeprecationWarning # NilPtr
  /\ mres.xrd.Versions[1].Deprecated # NilPtr
  /\ mres.xrd.Versions[2].Deprecated = NilPtr

\* C5: every file Generate has written holds the document of an XRD it
\* handed to the writer with the top-level status key removed and every
\* other top-level key as serialized, and the transform returns no error.
C5_NoStatusInOutput ==
  /\ \A c \in 1..Len(calls) :
       /\ calls[c].transforms = <<"removeXRDStatus">>
       /\ removeXRDStatus(toDocument(calls[c].objs[1])).err = NilErr
       /\ calls[c].err = NilErr => calls[c].fileName \in DOMAIN fs
  /\ \A f \in DOMAIN fs :
       \E c \in 1..Len(calls) :
         LET before == toDocument(calls[c].objs[1])
             after == fs[f].docs[1]
         IN  /\ calls[c].fileName = f /\ calls[c].err = NilErr
             /\ Len(fs[f].docs) = 1
             /\ "status" \notin DOMAIN after
             /\ DOMAIN after = DOMAIN before \ {"status"}
             /\ \A k \in DOMAIN after : after[k] = before[k]

C5_Witness ==
  /\ Len(calls) = 2 /\ calls[2].err = NilErr
  /\ "status" \in DOMAIN toDocument(calls[2].objs[1])
  /\ calls[1].fileName # calls[2].fileName
  /\ "spec" \in DOMAIN fs[calls[2].fileName].docs[1]

\* The write of the kind at position j failed.
WriteFailed(j) == \E c \in 1..Len(calls) : calls[c].idx = j /\ calls[c].err # NilErr

\* What follows the first failure, at position j.
StoppedAt(j) ==
  /\ Returned /\ genResult # NilErr /\ idx = j
  /\ \A k \in 1..(j - 1) :
       \E c \in 1..Len(calls) :
         calls[c].idx = k /\ calls[c].err = NilErr /\ calls[c].fileName \in DOMAIN fs
  /\ \A e \in 1..Len(events) : events[e].idx <= j
  /\ \A c \in 1..Len(calls) : calls[c].idx <= j

\* C6 as amended: Generate stops at the first kind whose storage-version
\* validation or write fails: it returns an error there, the files of the
\* earlier kinds are written, and nothing is done for the later kinds.
C6_FailFast ==
  \A j \in 1..Len(kubeKinds) :
    ((Validated(j) /\ NoStorageVersion(CRDOf(j))) \/ WriteFailed(j)) => StoppedAt(j)

C6_Witness ==
  /\ Len(kubeKinds) = 2 /\ WriteFailed(1) /\ Returned
  /\ schemaErrs = {} /\ ~Called("NeedCRDFor", 2)

\* C6 as stated: a failure of the schema construction of a kind stops
\* Generate as well: nothing is done for the later kinds and Generate
\* returns an error.
C6_Original ==
  \A j \in 1..Len(kubeKinds) :
    (\/ j \in schemaErrs
     \/ (Validated(j) /\ NoStorageVersion(CRDOf(j)))
     \/ WriteFailed(j)) =>
      /\ \A e \in 1..Len(events) : events[e].idx <= j
      /\ \A c \in 1..Len(calls) : calls[c].idx <= j
      /\ Returned => genResult # NilErr

\* C7: when Generate returns nil there is one WriteYAML call per kind, in
\* the order of discovery, each with one XRD, the file name
\* <group>_<plural>.yaml of the kind's CRD and the same header text.
C7_OneWritePerKind ==
  (Returned /\ genResult = NilErr) =>
    /\ Len(calls) = Len(kubeKinds)
    /\ \A j \in 1..Len(kubeKinds) :
         /\ calls[j].idx = j
         /\ Len(calls[j].objs) = 1
         /\ calls[j].objs[1].xrd.Kind = "CompositeResourceDefinition"
         /\ calls[j].objs[1].xrd.Name = CRDOf(j).Name
         /\ calls[j].fileName = CRDOf(j).Group \o "_" \o CRDOf(j).Plural \o ".yaml"
         /\ calls[j].headerText = calls[1].headerText

C7_Witness ==
  /\ Returned /\ genResult = NilErr /\ Len(kubeKinds) = 2 /\ Len(calls) = 2
  /\ kubeKinds[1].Group # kubeKinds[2].Group
  /\ calls[1].fileName = "b.io_gadgets.yaml"
  /\ calls[2].fileName = "a.org_widgets.yaml"
  /\ calls[1].headerText = <<"Y", "E", "A", "R", " ", "2", "6", ".">>

\* C8: without the metav1 package, or without kinds, Generate returns nil
\* and calls neither WriteYAML nor ReadFile, so an unreadable header file
\* does not fail the run.
C8_NothingToDo ==
  (Returned /\ (metav1Pkg = NilPtr \/ kubeKinds = <<>>)) =>
    genResult = NilErr /\ calls = <<>> /\ reads = <<>>

C8_Witness ==
  /\ Returned /\ metav1Pkg # NilPtr /\ kubeKinds = <<>>
  /\ rt[1].g.HeaderFile = "LICENSE" /\ srcFiles["LICENSE"] = NilPtr
  /\ genResult = NilErr

\* The options parsed, a generator was specified and the runtime reports
\* that every generator ran without error.
RanWell ==
  /\ optsErr = NilErr /\ rt # <<>> /\ rt[1].Generators > 0
  /\ runCalled /\ ~hadErrs

ExitedNonZeroWithMessage == exitCode[1] # 0 /\ Len(stderr) > 0

\* C9 as amended: when cobra calls RunE the exit code is 0 exactly when the
\* options parse, a generator was specified and the runtime reports no
\* error, otherwise a message is printed and the exit code is not 0, and
\* rt.Run is not called without a generator; a help request exits 0 without
\* generation, and an unknown flag exits non-zero with a message.
C9_ExitCode ==
  pc = "exit" =>
    /\ invoked = "RunE" =>
         /\ exitCode = <<0>> <=> RanWell
         /\ exitCode # <<0>> => ExitedNonZeroWithMessage
         /\ (rt # <<>> /\ rt[1].Generators = 0) => ~runCalled
    /\ invoked = "help" => exitCode = <<0>> /\ ~runCalled /\ stderr = <<>>
    /\ invoked = "flagError" => ExitedNonZeroWithMessage /\ ~runCalled

C9_Witness ==
  /\ pc = "exit" /\ invoked = "RunE" /\ exitCode = <<0>> /\ Len(calls) = 1

\* C9 as stated: the exit code is 0 exactly when the options parse, a
\* generator was specified and the runtime reports no error.
C9_Original ==
  pc = "exit" =>
    /\ exitCode = <<0>> <=> RanWell
    /\ exitCode # <<0>> => ExitedNonZeroWithMessage
    /\ (rt # <<>> /\ rt[1].Generators = 0) => ~runCalled

\* C10: CRDToXRDv2 returns no error; a version whose schema is absent or
\* does not encode is emitted in its place with its name and flags and a nil
\* schema, and a version whose schema encodes carries the encoded bytes.
C10_SchemaNilOnEncodeFailure ==
  mpc = "returned" =>
    /\ mres.err = NilErr
    /\ Len(mres.xrd.Versions) = Len(crdArg.Versions)
    /\ \A k \in 1..Len(crdArg.Versions) :
         LET in == crdArg.Versions[k]
             out == mres.xrd.Versions[k]
         IN  /\ out.Name = in.Name
             /\ out.Referenceable = in.Storage
             /\ out.Served = in.Served
             /\ IF in.Schema = NilPtr THEN out.Schema = NilPtr
                ELSE IF in.Schema[1].OpenAPIV3Schema = NilPtr THEN out.Schema = NilPtr
                ELSE IF in.Schema[1].OpenAPIV3Schema[1].Default = <<"{">>
                     THEN out.Schema = NilPtr
                     ELSE /\ out.Schema # NilPtr
                          /\ out.Schema[1].OpenAPIV3Schema.Raw
                               = "{\"default\":1,\"type\":\"object\"}"

C10_Witness ==
  /\ mpc = "returned" /\ Len(crdArg.Versions) = 2
  /\ crdArg.Versions[1].Schema # NilPtr
  /\ crdArg.Versions[1].Schema[1].OpenAPIV3Schema # NilPtr
  /\ crdArg.Versions[1].Schema[1].OpenAPIV3Schema[1].Default = <<"{">>
  /\ crdArg.Versions[2].Schema = EncodableSchema
  /\ mres.xrd.Versions[1].Schema = NilPtr
  /\ mres.xrd.Versions[2].Schema # NilPtr
====
